---------------------------- MODULE Spec2Model ----------------------------
(***************************************************************************)
(* A model of the content processor of content-verify-log                  *)
(* (pkg/service/content_processor.go).                                     *)
(*                                                                         *)
(* A text is a sequence of codepoints.  A codepoint is written as a        *)
(* one-character string; the codepoints outside ASCII that the code names  *)
(* are written by their number: "U4E2D" (a CJK letter, 3 bytes in UTF-8),  *)
(* "U3010" and "U3011" (the brackets of a reviewer note), "U9519" and      *)
(* "U8BEF" (the two letters of the word "error" that ends such a note).    *)
(***************************************************************************)
EXTENDS Integers, Sequences, FiniteSets, TLC

(***************************************************************************)
(* Codepoints and the literals of the regular expressions                  *)
(***************************************************************************)

\* The codepoints of the model that take three bytes in UTF-8.
WideRunes ==
    {"U4E2D", "U3010", "U3011", "U9519", "U8BEF"}

\* len(string(r)): the UTF-8 length of one codepoint.
ByteLen(r) ==
    IF r \in WideRunes THEN 3 ELSE 1

\* ["'] of both regular expressions.
Quotes ==
    {"\"", "'"}

\* \s of both regular expressions.
Spaces ==
    {" ", "\t", "\n", "\f", "\r"}

LitSpanOpen ==
    <<"<", "s", "p", "a", "n">>

LitSpanClose ==
    <<"<", "/", "s", "p", "a", "n", ">">>

LitClass ==
    <<"c", "l", "a", "s", "s">>

LitJdtUmold ==
    <<"j", "d", "t", "_", "u", "m", "o", "l", "d">>

LitStyle ==
    <<"s", "t", "y", "l", "e">>

LitBackgroundColor ==
    <<"b", "a", "c", "k", "g", "r", "o", "u", "n", "d", "-", "c", "o", "l", "o", "r">>

LitYellow ==
    <<"y", "e", "l", "l", "o", "w">>

\* The two letters that end a reviewer note, before its closing bracket.
LitErrorWord ==
    <<"U9519", "U8BEF">>

(***************************************************************************)
(* Helpers on texts                                                        *)
(***************************************************************************)

MinOf(S) ==
    CHOOSE x \in S : \A y \in S : x <= y

MaxOf(S) ==
    CHOOSE x \in S : \A y \in S : x >= y

\* text[i..] starts with lit (1-based i).
HasAt(text, i, lit) ==
    /\ i >= 1
    /\ i + Len(lit) - 1 <= Len(text)
    /\ \A k \in 1..Len(lit) : text[i + k - 1] = lit[k]

\* The least element of a set of indexes, 0 when the set is empty.
FirstOf(S) ==
    IF S = {} THEN 0 ELSE MinOf(S)

\* The first index >= i at which lit occurs in text, 0 when there is none.
IndexFrom(text, lit, i) ==
    FirstOf({j \in i..(Len(text) - Len(lit) + 1) : HasAt(text, j, lit)})

\* The first index >= i whose codepoint is in set, 0 when there is none.
IndexOfAny(text, set, i) ==
    FirstOf({j \in i..Len(text) : text[j] \in set})

\* \s* from i: the first index >= i that holds no whitespace (Len + 1 at the end).
SkipSpaces(text, i) ==
    FirstOf({j \in i..(Len(text) + 1) : j = Len(text) + 1 \/ text[j] \notin Spaces})

\* text[from..to] holds no newline: what the "." of .*? may cross.
NoNewline(text, from, to) ==
    \A k \in from..to : text[k] # "\n"

\* runes[:start] ++ mid ++ runes[end:], with 0-based start and end as in Go.
Splice(runes, start, end, mid) ==
    SubSeq(runes, 1, start) \o mid \o SubSeq(runes, end + 1, Len(runes))

\* runes[start:end], with 0-based start and end as in Go.
Slice(runes, start, end) ==
    SubSeq(runes, start + 1, end)

(***************************************************************************)
(* stripErrorMarkers, flag "new"                                           *)
(*   <span[^>]*class\s*=\s*["']jdt_umold["'][^>]*>(.*?)</span>  ->  $1     *)
(***************************************************************************)

\* ["']jdt_umold["'] matches at m.
QuotedUmoldAt(text, m) ==
    /\ m + 10 <= Len(text)
    /\ text[m] \in Quotes
    /\ HasAt(text, m + 1, LitJdtUmold)
    /\ text[m + 10] \in Quotes

\* =\s*["']jdt_umold["'] matches at k.
EqualsUmoldAt(text, k) ==
    HasAt(text, k, <<"=">>) /\ QuotedUmoldAt(text, SkipSpaces(text, k + 1))

\* class\s*=\s*["']jdt_umold["'] matches at j.
ClassAttrAt(text, j) ==
    HasAt(text, j, LitClass) /\ EqualsUmoldAt(text, SkipSpaces(text, j + 5))

\* The match that starts at i with its opening tag ending at g and its
\* "</span>" starting at e (0: there is none).
NewMatchOf(text, i, g, e) ==
    [ok |-> /\ g # 0
            /\ e # 0
            /\ \E j \in (i + 5)..(g - 1) : ClassAttrAt(text, j)
            /\ NoNewline(text, g + 1, e - 1),
     g  |-> g,
     e  |-> e]

\* The first "</span>" after the opening tag: the group is not greedy.
SpanCloseAfter(text, g) ==
    IF g = 0 THEN 0 ELSE IndexFrom(text, LitSpanClose, g + 1)

\* The match of the regular expression that starts at i: no [^>] crosses a ">",
\* so the opening tag ends at the first ">" after "<span".
NewMatchAt(text, i) ==
    IF ~HasAt(text, i, LitSpanOpen)
    THEN [ok |-> FALSE, g |-> 0, e |-> 0]
    ELSE NewMatchOf(text, i, IndexFrom(text, <<">">>, i + 5),
                    SpanCloseAfter(text, IndexFrom(text, <<">">>, i + 5)))

RECURSIVE StripNewFrom(_, _)
\* The text from i on with the match m, which starts at j, replaced by its group.
StripNewCut(text, i, j, m) ==
    SubSeq(text, i, j - 1) \o SubSeq(text, m.g + 1, m.e - 1) \o StripNewFrom(text, m.e + 7)

\* j is the start of the first match from i on (0: there is none).
StripNewNext(text, i, j) ==
    IF j = 0 THEN SubSeq(text, i, Len(text)) ELSE StripNewCut(text, i, j, NewMatchAt(text, j))

\* ReplaceAllString from index i on: the matches are taken leftmost first and
\* do not overlap; each is replaced by its group.
StripNewFrom(text, i) ==
    StripNewNext(text, i, FirstOf({j \in i..Len(text) : NewMatchAt(text, j).ok}))

(***************************************************************************)
(* stripErrorMarkers, flag "old"                                           *)
(*   <span[^>]*style\s*=\s*["'][^"']*background-color\s*:\s*yellow         *)
(*        [^"']*["'][^>]*>.*?</span>                                       *)
(*   each match replaced by itself without <[^>]*> and without the notes   *)
(***************************************************************************)

\* :\s*yellow matches at c and ends before index q.
ColonYellowAt(text, c, q) ==
    /\ HasAt(text, c, <<":">>)
    /\ HasAt(text, SkipSpaces(text, c + 1), LitYellow)
    /\ SkipSpaces(text, c + 1) + 5 < q

\* background-color\s*:\s*yellow matches at b and ends before index q.
YellowAt(text, b, q) ==
    HasAt(text, b, LitBackgroundColor) /\ ColonYellowAt(text, SkipSpaces(text, b + 16), q)

\* The value of the style attribute opens with the quote at m and closes with
\* the first quote after it, q2; the tag ends at the first ">" after q2.
StyleValueAt(text, m, q2) ==
    [ok |-> /\ m <= Len(text)
            /\ text[m] \in Quotes
            /\ q2 # 0
            /\ \E b \in (m + 1)..(q2 - 1) : YellowAt(text, b, q2)
            /\ IndexFrom(text, <<">">>, q2 + 1) # 0,
     g  |-> IF q2 = 0 THEN 0 ELSE IndexFrom(text, <<">">>, q2 + 1)]

\* =\s*["'] ... matches at k.
StyleEqualsAt(text, k) ==
    IF HasAt(text, k, <<"=">>)
    THEN StyleValueAt(text, SkipSpaces(text, k + 1),
                      IndexOfAny(text, Quotes, SkipSpaces(text, k + 1) + 1))
    ELSE [ok |-> FALSE, g |-> 0]

\* The opening tag of a match at i whose "style" is at s; g is the ">" that ends it.
OldOpenWith(text, i, s) ==
    IF HasAt(text, s, LitStyle) /\ \A n \in (i + 5)..(s - 1) : text[n] # ">"
    THEN StyleEqualsAt(text, SkipSpaces(text, s + 5))
    ELSE [ok |-> FALSE, g |-> 0]

\* The match whose opening tag is o: e is the start of the first "</span>" after it.
OldMatchOf(text, o, e) ==
    [ok |-> o.ok /\ e # 0 /\ NoNewline(text, o.g + 1, e - 1), e |-> e]

\* The match that starts at i with "style" at s.
OldMatchWith(text, i, s) ==
    OldMatchOf(text, OldOpenWith(text, i, s), SpanCloseAfter(text, OldOpenWith(text, i, s).g))

\* [^>]* is greedy: of the places of "style" that lead to a match the last is taken.
OldMatchLast(text, i, S) ==
    IF S = {} THEN [ok |-> FALSE, e |-> 0] ELSE OldMatchWith(text, i, MaxOf(S))

\* The match that starts at i.
OldMatchAt(text, i) ==
    IF ~HasAt(text, i, LitSpanOpen)
    THEN [ok |-> FALSE, e |-> 0]
    ELSE OldMatchLast(text, i, {s \in (i + 5)..Len(text) : OldMatchWith(text, i, s).ok})

RECURSIVE RemoveTagsFrom(_, _)
\* j is the first "<" from i on that has a ">" after it (0: there is none).
RemoveTagsNext(text, i, j) ==
    IF j = 0
    THEN SubSeq(text, i, Len(text))
    ELSE SubSeq(text, i, j - 1) \o RemoveTagsFrom(text, IndexFrom(text, <<">">>, j + 1) + 1)

\* <[^>]*> replaced by nothing, from index i on: a "<" and all up to the first
\* ">" after it.
RemoveTagsFrom(text, i) ==
    RemoveTagsNext(text, i,
        FirstOf({j \in i..Len(text) : text[j] = "<" /\ IndexFrom(text, <<">">>, j + 1) # 0}))

RemoveTags(text) ==
    RemoveTagsFrom(text, 1)

\* A note that starts at i ends at r, the first closing bracket after i: an
\* opening bracket, [^closing bracket]*, the error word, the closing bracket.
NoteEndsAt(text, i, r) ==
    text[i] = "U3010" /\ r # 0 /\ r - 2 > i /\ HasAt(text, r - 2, LitErrorWord)

NoteAt(text, i) ==
    NoteEndsAt(text, i, IndexFrom(text, <<"U3011">>, i + 1))

RECURSIVE RemoveNotesFrom(_, _)
\* j is the start of the first note from i on (0: there is none).
RemoveNotesNext(text, i, j) ==
    IF j = 0
    THEN SubSeq(text, i, Len(text))
    ELSE SubSeq(text, i, j - 1)
             \o RemoveNotesFrom(text, IndexFrom(text, <<"U3011">>, j + 1) + 1)

\* The notes replaced by nothing, from index i on.
RemoveNotesFrom(text, i) ==
    RemoveNotesNext(text, i, FirstOf({j \in i..Len(text) : NoteAt(text, j)}))

RemoveNotes(text) ==
    RemoveNotesFrom(text, 1)

RECURSIVE StripOldFrom(_, _)
\* The text from i on with the match that starts at j and ends with the
\* "</span>" at e replaced by itself without its tags and its notes.
StripOldCut(text, i, j, e) ==
    SubSeq(text, i, j - 1) \o RemoveNotes(RemoveTags(SubSeq(text, j, e + 6)))
        \o StripOldFrom(text, e + 7)

\* j is the start of the first match from i on (0: there is none).
StripOldNext(text, i, j) ==
    IF j = 0 THEN SubSeq(text, i, Len(text)) ELSE StripOldCut(text, i, j, OldMatchAt(text, j).e)

\* ReplaceAllStringFunc from index i on.
StripOldFrom(text, i) ==
    StripOldNext(text, i, FirstOf({j \in i..Len(text) : OldMatchAt(text, j).ok}))

StripErrorMarkers(text, flag) ==
    IF text = <<>> THEN text
    ELSE IF flag = "new" THEN StripNewFrom(text, 1)
    ELSE IF flag = "old" THEN StripOldFrom(text, 1)
    ELSE text

(***************************************************************************)
(* stripHTML: html.UnescapeString, then <[^>]*> replaced by nothing        *)
(***************************************************************************)

\* The entity that starts at the "&" at index i: its name is looked up with
\* and without the ";" (lt, gt and amp are entities either way); n is the
\* number of codepoints it takes.
EntityAt(text, i) ==
    IF HasAt(text, i, <<"&", "l", "t">>)
    THEN [ok |-> TRUE, r |-> "<", n |-> IF HasAt(text, i + 3, <<";">>) THEN 4 ELSE 3]
    ELSE IF HasAt(text, i, <<"&", "g", "t">>)
    THEN [ok |-> TRUE, r |-> ">", n |-> IF HasAt(text, i + 3, <<";">>) THEN 4 ELSE 3]
    ELSE IF HasAt(text, i, <<"&", "a", "m", "p">>)
    THEN [ok |-> TRUE, r |-> "&", n |-> IF HasAt(text, i + 4, <<";">>) THEN 5 ELSE 4]
    ELSE [ok |-> FALSE, r |-> "", n |-> 0]

RECURSIVE UnescapeFrom(_, _)
\* The text from i on with the entity en, which starts at j, decoded.
UnescapeCut(text, i, j, en) ==
    SubSeq(text, i, j - 1) \o <<en.r>> \o UnescapeFrom(text, j + en.n)

\* j is the start of the first entity from i on (0: there is none).
UnescapeNext(text, i, j) ==
    IF j = 0 THEN SubSeq(text, i, Len(text)) ELSE UnescapeCut(text, i, j, EntityAt(text, j))

UnescapeFrom(text, i) ==
    UnescapeNext(text, i, FirstOf({j \in i..Len(text) : EntityAt(text, j).ok}))

UnescapeString(text) ==
    UnescapeFrom(text, 1)

StripHTML(text) ==
    IF text = <<>> THEN text ELSE RemoveTags(UnescapeString(text))

(***************************************************************************)
(* JSON values, as encoding/json decodes them into interface{}             *)
(*                                                                         *)
(* A string value is either a text (its codepoints) or the JSON encoding   *)
(* of a document, kept as that document: json.Unmarshal of the first kind  *)
(* fails (no text of the model is valid JSON, the empty one included) and  *)
(* of the second kind decodes the document.                                *)
(***************************************************************************)

JNull ==
    [t |-> "null"]

JStr(s) ==
    [t |-> "string", s |-> s]

JText(doc) ==
    [t |-> "jsontext", doc |-> doc]

JNum(n) ==
    [t |-> "number", n |-> n]

JArr(a) ==
    [t |-> "array", a |-> a]

JObj(o) ==
    [t |-> "object", o |-> o]

\* v.(string) succeeds.
IsString(v) ==
    v.t \in {"string", "jsontext"}

\* v.(string) succeeds and the string is "".
IsEmptyString(v) ==
    v.t = "string" /\ v.s = <<>>

\* m[key] of a map[string]interface{}: nil when the key is absent.
Get(m, key) ==
    IF key \in DOMAIN m THEN m[key] ELSE JNull

\* An int field of a struct: absent or null leaves 0, a number sets it, any
\* other value is an UnmarshalTypeError.
DecodeInt(o, key) ==
    LET v == Get(o, key)
    IN  IF v.t = "null" THEN [ok |-> TRUE, v |-> 0]
        ELSE IF v.t = "number" THEN [ok |-> TRUE, v |-> v.n]
        ELSE [ok |-> FALSE, v |-> 0]

\* A string field of a struct.
DecodeString(o, key) ==
    LET v == Get(o, key)
    IN  IF v.t = "null" THEN [ok |-> TRUE, v |-> <<>>]
        ELSE IF v.t = "string" THEN [ok |-> TRUE, v |-> v.s]
        ELSE [ok |-> FALSE, v |-> <<>>]

\* A []string field of a struct: a null element leaves "".
DecodeStrings(o, key) ==
    LET v == Get(o, key)
    IN  IF v.t = "null" THEN [ok |-> TRUE, v |-> <<>>]
        ELSE IF v.t = "array" /\ \A k \in 1..Len(v.a) : v.a[k].t \in {"string", "null"}
        THEN [ok |-> TRUE,
              v  |-> [k \in 1..Len(v.a) |->
                         IF v.a[k].t = "string" THEN v.a[k].s ELSE <<>>]]
        ELSE [ok |-> FALSE, v |-> <<>>]

\* One element of the checklist into a ChecklistItem (the fields the code reads).
DecodeChecklistItem(el) ==
    IF el.t = "null"
    THEN [ok |-> TRUE,
          v  |-> [Position |-> 0, Length |-> 0, Word |-> <<>>, Suggest |-> <<>>]]
    ELSE IF el.t # "object"
    THEN [ok |-> FALSE, v |-> JNull]
    ELSE LET p == DecodeInt(el.o, "position")
             l == DecodeInt(el.o, "length")
             w == DecodeString(el.o, "word")
             s == DecodeStrings(el.o, "suggest")
         IN  [ok |-> p.ok /\ l.ok /\ w.ok /\ s.ok,
              v  |-> [Position |-> p.v, Length |-> l.v, Word |-> w.v, Suggest |-> s.v]]

\* One element of checkresultjson into a Correction (the fields the code reads).
DecodeCorrection(el) ==
    IF el.t = "null"
    THEN [ok |-> TRUE, v |-> [ErrWord |-> <<>>, Pos |-> 0, CorWord |-> <<>>]]
    ELSE IF el.t # "object"
    THEN [ok |-> FALSE, v |-> JNull]
    ELSE LET e == DecodeString(el.o, "errword")
             p == DecodeInt(el.o, "pos")
             c == DecodeStrings(el.o, "corword")
         IN  [ok |-> e.ok /\ p.ok /\ c.ok,
              v  |-> [ErrWord |-> e.v, Pos |-> p.v, CorWord |-> c.v]]

\* The bytes handed to json.Unmarshal for a value of either list field: a
\* string gives its own bytes, every other value is marshalled first.  The
\* result is the document those bytes encode, or "invalid".
ListBytes(v) ==
    IF v.t = "string" THEN [t |-> "invalid"]
    ELSE IF v.t = "jsontext" THEN v.doc
    ELSE v

\* json.Unmarshal(jsonBytes, &checklistItems): null leaves the nil slice.
UnmarshalChecklist(v) ==
    LET doc == ListBytes(v)
    IN  IF doc.t = "null" THEN [ok |-> TRUE, v |-> <<>>]
        ELSE IF doc.t = "array" /\ \A k \in 1..Len(doc.a) : DecodeChecklistItem(doc.a[k]).ok
        THEN [ok |-> TRUE, v |-> [k \in 1..Len(doc.a) |-> DecodeChecklistItem(doc.a[k]).v]]
        ELSE [ok |-> FALSE, v |-> <<>>]

\* json.Unmarshal(jsonBytes, &corrections).
UnmarshalCorrections(v) ==
    LET doc == ListBytes(v)
    IN  IF doc.t = "null" THEN [ok |-> TRUE, v |-> <<>>]
        ELSE IF doc.t = "array" /\ \A k \in 1..Len(doc.a) : DecodeCorrection(doc.a[k]).ok
        THEN [ok |-> TRUE, v |-> [k \in 1..Len(doc.a) |-> DecodeCorrection(doc.a[k]).v]]
        ELSE [ok |-> FALSE, v |-> <<>>]

\* json.Unmarshal(raw, &jsonData) into a map[string]interface{}: an object
\* gives its map, null leaves the nil map (read like the empty one).
UnmarshalMap(v) ==
    IF v.t = "jsontext" /\ v.doc.t = "object" THEN [ok |-> TRUE, v |-> v.doc.o]
    ELSE IF v.t = "jsontext" /\ v.doc.t = "null" THEN [ok |-> TRUE, v |-> <<>>]
    ELSE [ok |-> FALSE, v |-> <<>>]

\* json.Unmarshal([]byte(str), &checklistArray) into a []interface{}.
UnmarshalArray(v) ==
    IF v.t = "jsontext" /\ v.doc.t = "array" THEN [ok |-> TRUE, v |-> v.doc.a]
    ELSE IF v.t = "jsontext" /\ v.doc.t = "null" THEN [ok |-> TRUE, v |-> <<>>]
    ELSE [ok |-> FALSE, v |-> <<>>]

(***************************************************************************)
(* The failure reasons (the code's texts are Chinese; each is named here   *)
(* by its meaning, a formatted reason by its prefix)                       *)
(***************************************************************************)

ReasonNone == ""
ReasonContentEmpty == "content empty"
ReasonJSONParseFailed == "JSON parse failed: <err>"
ReasonOriginalFieldMissing == "original field checkresultstr not found"
ReasonCheckResultJSONEmpty == "checkresultjson empty"
ReasonApplyCorrectionsFailed == "applying corrections failed: <err>"
ReasonReplaceTextMissing == "replace_text not found or empty"
ReasonChecklistMissing == "checklist not found"
ReasonExtractFailed == "extracting the original failed: <err>"
ReasonChecklistFormat == "checklist format wrong"
ReasonNoErrors == "no errors"

(***************************************************************************)
(* Sorting                                                                 *)
(***************************************************************************)

Perms(n) ==
    {p \in [1..n -> 1..n] : \A i, j \in 1..n : i # j => p[i] # p[j]}

\* The sort with the comparison turned round: Position ascending.
SortChecklistAscending(list) ==
    {[i \in 1..Len(list) |-> list[p[i]]] :
        p \in {q \in Perms(Len(list)) :
                 \A i \in 1..(Len(list) - 1) :
                     list[q[i]].Position <= list[q[i + 1]].Position}}

\* sort.Slice(checklistItems, Position descending).  sort.Slice is not
\* stable: items of equal position end in any order.
SortChecklist(list) ==
    {[i \in 1..Len(list) |-> list[p[i]]] :
        p \in {q \in Perms(Len(list)) :
                 \A i \in 1..(Len(list) - 1) :
                     list[q[i]].Position >= list[q[i + 1]].Position}}

\* sort.Slice(corrections, Pos descending).
SortCorrections(list) ==
    {[i \in 1..Len(list) |-> list[p[i]]] :
        p \in {q \in Perms(Len(list)) :
                 \A i \in 1..(Len(list) - 1) :
                     list[q[i]].Pos >= list[q[i + 1]].Pos}}

(***************************************************************************)
(* byteToRunePos and strings.Index                                         *)
(***************************************************************************)

\* len(text): the length of the text in bytes.
ByteLength(text) ==
    Len(text) + 2 * Cardinality({k \in 1..Len(text) : text[k] \in WideRunes})

\* The byte offset of the k-th codepoint (k from 1): the index i that
\* "for i, r := range text" gives it, and byteCount when the loop reaches it.
ByteOffset(text, k) ==
    ByteLength(SubSeq(text, 1, k - 1))

\* The closure one position short.
ByteToRunePosOneShort(text, bytePos) ==
    IF bytePos < 0 \/ bytePos >= ByteLength(text)
    THEN -1
    ELSE LET S == {k \in 1..Len(text) : ByteOffset(text, k) >= bytePos}
         IN  IF S # {}
             THEN ByteOffset(text, MinOf(S)) - 1
             ELSE ByteOffset(text, Len(text))

\* The closure byteToRunePos of applyCorrections.
ByteToRunePos(text, bytePos) ==
    IF bytePos < 0 \/ bytePos >= ByteLength(text)
    THEN -1
    ELSE LET S == {k \in 1..Len(text) : ByteOffset(text, k) >= bytePos}
         IN  IF S # {}
             THEN ByteOffset(text, MinOf(S))
             ELSE ByteOffset(text, Len(text)) + 1

\* strings.Index(text, word) in codepoints, from 1; 0 stands for -1.
StringsIndex(text, word) ==
    IndexFrom(text, word, 1)

(***************************************************************************)
(* The state                                                               *)
(***************************************************************************)

VARIABLES
    verifyContent,  \* the record handed to ProcessContent
    pc,             \* where ProcessContent is
    dataObj,        \* ProcessContent: the unwrapped data object
    result,         \* the ProcessedContent under construction
    returned,       \* the ProcessedContent values returned so far
    items,          \* the sorted checklistItems or corrections of the running loop
    idx,            \* the loop's index into items (from 1)
    runes,          \* the loop's runes (the legacy loop's modifiedText as well)
    locals,         \* processNewFormat: cleanedReplaceText, modifiedText, cleanedModifiedText
    log             \* one entry per loop iteration done

\* MigrateToDuckDB
VARIABLES
    table,          \* the rows of tbl_verify_content, ordered by id
    batchSize,      \* the parameter batchSize
    offset,         \* the OFFSET of the next page query
    contents,       \* the records of the page that passed the checks of the scan loop
    cursor,         \* the index into contents of the record handed over next (from 1)
    mpc,            \* where MigrateToDuckDB is
    inserts,        \* the INSERT statements executed, each with whether it succeeded
    handed,         \* the ids of the records handed to processAndInsert
    pageReads,      \* the number of page queries made
    processed,      \* the counter processed
    errors          \* the counter errors

\* The state of ProcessContent.
pvars ==
    <<verifyContent, pc, dataObj, result, returned, items, idx, runes, locals, log>>

\* The state of MigrateToDuckDB.
mvars ==
    <<table, batchSize, offset, contents, cursor, mpc, inserts, handed, pageReads,
      processed, errors>>

vars ==
    <<verifyContent, pc, dataObj, result, returned, items, idx, runes, locals, log,
      table, batchSize, offset, contents, cursor, mpc, inserts, handed, pageReads,
      processed, errors>>

NoLocals ==
    [cleanedReplaceText |-> <<>>, modifiedText |-> <<>>, cleanedModifiedText |-> <<>>]

(***************************************************************************)
(* ProcessContent                                                          *)
(***************************************************************************)

\* return result
Return(res) ==
    /\ result' = res
    /\ returned' = Append(returned, res)
    /\ pc' = "done"

\* The decoding without the test for the empty payload.
ParseContentNoEmptyTest(vc) ==
    IF vc.Content.Data # JNull
    THEN [ok |-> TRUE, reason |-> ReasonNone, v |-> vc.Content.Data.o]
    ELSE LET m == UnmarshalMap(vc.Content.Raw)
         IN  [ok |-> m.ok,
              reason |-> IF m.ok THEN ReasonNone ELSE ReasonJSONParseFailed,
              v |-> m.v]

\* The map the payload decodes to: the parsed content when there is one, the
\* raw content decoded again otherwise.
ParseContent(vc) ==
    IF vc.Content.Data # JNull
    THEN [ok |-> TRUE, reason |-> ReasonNone, v |-> vc.Content.Data.o]
    ELSE IF IsEmptyString(vc.Content.Raw)
    THEN [ok |-> FALSE, reason |-> ReasonContentEmpty, v |-> <<>>]
    ELSE LET m == UnmarshalMap(vc.Content.Raw)
         IN  [ok |-> m.ok,
              reason |-> IF m.ok THEN ReasonNone ELSE ReasonJSONParseFailed,
              v |-> m.v]

\* The data object: the value of "data" when it is an object, the document otherwise.
Unwrap(jsonData) ==
    IF "data" \in DOMAIN jsonData /\ jsonData["data"].t = "object"
    THEN jsonData["data"].o
    ELSE jsonData

\* The classifier with the precedence turned round: the revised schema only
\* when no field of the legacy schema is there.
IsNewFormatLegacyFirst(obj) ==
    LET v == Get(obj, "replace_text")
    IN  /\ IsString(v) /\ ~IsEmptyString(v)
        /\ "checkresultstr" \notin DOMAIN obj
        /\ "checkresultjson" \notin DOMAIN obj

\* replaceText, exists := dataObj["replace_text"].(string); exists && replaceText != ""
IsNewFormat(obj) ==
    LET v == Get(obj, "replace_text")
    IN  IsString(v) /\ ~IsEmptyString(v)

ProcessContent ==
    /\ pc = "start"
    /\ LET res == [PID |-> verifyContent.TaskID, OriginalText |-> <<>>,
                   ModifiedText |-> <<>>, ErrorReason |-> ReasonNone]
           parsed == ParseContent(verifyContent)
       IN  IF ~parsed.ok
           THEN /\ Return([res EXCEPT !.ErrorReason = parsed.reason])
                /\ UNCHANGED dataObj
           ELSE /\ dataObj' = Unwrap(parsed.v)
                /\ result' = res
                /\ pc' = IF IsNewFormat(Unwrap(parsed.v)) THEN "new" ELSE "old"
                /\ UNCHANGED returned
    /\ UNCHANGED <<verifyContent, items, idx, runes, locals, log>>
    /\ UNCHANGED mvars

(***************************************************************************)
(* processNewFormat and applyChecklistFixes                                *)
(***************************************************************************)

\* processNewFormat up to the loop of applyChecklistFixes.
ProcessNewFormat ==
    /\ pc = "new"
    /\ LET replaceText == Get(dataObj, "replace_text")
           checklist == Get(dataObj, "checklist")
       IN  IF ~IsString(replaceText) \/ IsEmptyString(replaceText)
           THEN /\ Return([result EXCEPT !.ErrorReason = ReasonReplaceTextMissing])
                /\ UNCHANGED <<items, idx, runes, locals>>
           ELSE IF "checklist" \notin DOMAIN dataObj
           THEN LET cleanedText == StripErrorMarkers(replaceText.s, "new")
                IN  /\ Return([result EXCEPT
                                  !.ErrorReason = ReasonChecklistMissing,
                                  !.ModifiedText = StripHTML(cleanedText),
                                  !.OriginalText = StripHTML(cleanedText)])
                    /\ UNCHANGED <<items, idx, runes, locals>>
           ELSE LET cleanedReplaceText == StripErrorMarkers(replaceText.s, "new")
                    res == [result EXCEPT !.OriginalText = StripHTML(cleanedReplaceText)]
                    decoded == UnmarshalChecklist(checklist)
                IN  IF ~decoded.ok
                    THEN /\ Return([res EXCEPT !.ErrorReason = ReasonExtractFailed,
                                               !.ModifiedText = res.OriginalText])
                         /\ locals' = [locals EXCEPT !.cleanedReplaceText = cleanedReplaceText]
                         /\ UNCHANGED <<items, idx, runes>>
                    ELSE /\ result' = res
                         /\ locals' = [locals EXCEPT !.cleanedReplaceText = cleanedReplaceText]
                         /\ items' \in SortChecklist(decoded.v)
                         /\ idx' = 1
                         /\ runes' = cleanedReplaceText
                         /\ pc' = "fix"
                         /\ UNCHANGED returned
    /\ UNCHANGED <<verifyContent, dataObj, log>>
    /\ UNCHANGED mvars

\* The iteration without the check of the recorded word.
FixItemNoWordCheck(rs, item) ==
    LET start == item.Position
        end == item.Position + item.Length
    IN  IF Len(item.Suggest) = 0 THEN [how |-> "no suggest", runes |-> rs]
        ELSE IF start < 0 \/ end > Len(rs) THEN [how |-> "out of bounds", runes |-> rs]
        ELSE IF start > end THEN [how |-> "panic", runes |-> rs]
        ELSE [how |-> "applied", runes |-> Splice(rs, start, end, item.Suggest[1])]

\* What one iteration of the loop of applyChecklistFixes does with item on runes:
\* the branch it takes and the runes it leaves.  runes[start:end] panics when
\* start > end (end <= len(runes) and start >= 0 hold there).
FixItem(rs, item) ==
    LET start == item.Position
        end == item.Position + item.Length
    IN  IF Len(item.Suggest) = 0 THEN [how |-> "no suggest", runes |-> rs]
        ELSE IF start < 0 \/ end > Len(rs) THEN [how |-> "out of bounds", runes |-> rs]
        ELSE IF start > end THEN [how |-> "panic", runes |-> rs]
        ELSE IF Slice(rs, start, end) # item.Word THEN [how |-> "mismatch", runes |-> rs]
        ELSE [how |-> "applied", runes |-> Splice(rs, start, end, item.Suggest[1])]

\* One iteration of the loop of applyChecklistFixes.
FixStep ==
    /\ pc = "fix"
    /\ idx <= Len(items)
    /\ LET step == FixItem(runes, items[idx])
       IN  /\ runes' = step.runes
           /\ log' = Append(log, [item |-> items[idx], how |-> step.how,
                                  before |-> runes, after |-> step.runes])
           /\ pc' = IF step.how = "panic" THEN "panic" ELSE "fix"
    /\ idx' = idx + 1
    /\ UNCHANGED <<verifyContent, dataObj, result, returned, items, locals>>
    /\ UNCHANGED mvars

\* The reason processNewFormat ends with: checklist as a []interface{}, or decoded
\* from its string; an empty array is "no errors".
ChecklistReason(checklist) ==
    IF checklist.t = "array"
    THEN IF Len(checklist.a) = 0 THEN ReasonNoErrors ELSE ReasonNone
    ELSE IF IsString(checklist)
    THEN IF ~UnmarshalArray(checklist).ok THEN ReasonChecklistFormat
         ELSE IF Len(UnmarshalArray(checklist).v) = 0 THEN ReasonNoErrors
         ELSE ReasonNone
    ELSE ReasonChecklistFormat

\* applyChecklistFixes returns string(runes); processNewFormat strips it again,
\* cleans it and sets the reason.
FixDone ==
    /\ pc = "fix"
    /\ idx > Len(items)
    /\ LET modifiedText == runes
           cleanedModifiedText == StripErrorMarkers(modifiedText, "new")
       IN  /\ locals' = [locals EXCEPT !.modifiedText = modifiedText,
                                       !.cleanedModifiedText = cleanedModifiedText]
           /\ Return([result EXCEPT
                         !.ModifiedText = StripHTML(cleanedModifiedText),
                         !.ErrorReason = ChecklistReason(Get(dataObj, "checklist"))])
    /\ UNCHANGED <<verifyContent, dataObj, items, idx, runes, log>>
    /\ UNCHANGED mvars

(***************************************************************************)
(* processOldFormat and applyCorrections                                   *)
(***************************************************************************)

\* The marked-source text processOldFormat finds: checkresultstr when it is a
\* string (empty or not); otherwise the first present of checkResultStr and
\* check_result_str, when that is a non-empty string.
MarkedSource(obj) ==
    LET v == Get(obj, "checkresultstr")
        alt == IF "checkResultStr" \in DOMAIN obj THEN obj["checkResultStr"]
               ELSE IF "check_result_str" \in DOMAIN obj THEN obj["check_result_str"]
               ELSE JNull
    IN  IF v.t = "string" THEN [ok |-> TRUE, s |-> v.s]
        ELSE IF alt.t = "string" /\ alt.s # <<>> THEN [ok |-> TRUE, s |-> alt.s]
        ELSE [ok |-> FALSE, s |-> <<>>]

\* The test with the empty string left out.
CheckResultJSONEmptyNilOnly(v) ==
    v = JNull

\* checkResultJSON == nil, or it is a string and that string is "".
CheckResultJSONEmpty(v) ==
    v = JNull \/ IsEmptyString(v)

\* The empty list without its reason.
EmptyCorrectionsReasonForgotten(corrections) ==
    ReasonNone

\* applyCorrections on an empty list sets the reason "no errors" itself.
EmptyCorrectionsReason(corrections) ==
    IF Len(corrections) = 0 THEN ReasonNoErrors ELSE ReasonNone

\* processOldFormat up to the loop of applyCorrections.
ProcessOldFormat ==
    /\ pc = "old"
    /\ LET src == MarkedSource(dataObj)
           checkResultJSON == Get(dataObj, "checkresultjson")
       IN  IF ~src.ok
           THEN /\ Return([result EXCEPT !.ErrorReason = ReasonOriginalFieldMissing])
                /\ UNCHANGED <<items, idx, runes>>
           ELSE LET originalText == StripErrorMarkers(src.s, "old")
                    res == [result EXCEPT !.OriginalText = StripHTML(originalText)]
                    decoded == UnmarshalCorrections(checkResultJSON)
                IN  IF CheckResultJSONEmpty(checkResultJSON)
                    THEN /\ Return([res EXCEPT !.ErrorReason = ReasonCheckResultJSONEmpty])
                         /\ UNCHANGED <<items, idx, runes>>
                    ELSE IF ~decoded.ok
                    THEN /\ Return([res EXCEPT !.ErrorReason = ReasonApplyCorrectionsFailed])
                         /\ UNCHANGED <<items, idx, runes>>
                    ELSE /\ result' = [res EXCEPT !.ErrorReason = EmptyCorrectionsReason(decoded.v)]
                         /\ items' \in SortCorrections(decoded.v)
                         /\ idx' = 1
                         /\ runes' = src.s
                         /\ pc' = "corr"
                         /\ UNCHANGED returned
    /\ UNCHANGED <<verifyContent, dataObj, locals, log>>
    /\ UNCHANGED mvars

\* The iteration without the replacement of the first occurrence.
CorrectItemNoFallback(text, corr) ==
    LET n == Len(corr.ErrWord)
        runePos == IF corr.Pos >= 0 THEN ByteToRunePos(text, corr.Pos) ELSE -1
        inRange == corr.Pos >= 0 /\ runePos >= 0 /\ runePos + n <= Len(text)
        actualText == IF inRange THEN Slice(text, runePos, runePos + n) ELSE <<>>
    IN  IF Len(corr.CorWord) = 0 \/ corr.CorWord[1] = <<>>
        THEN [how |-> "no corword", runePos |-> -1, text |-> text]
        ELSE IF corr.ErrWord = <<>>
        THEN [how |-> "no errword", runePos |-> -1, text |-> text]
        ELSE IF /\ inRange
                /\ \/ StripErrorMarkers(actualText, "new") = corr.ErrWord
                   \/ actualText = corr.ErrWord
        THEN [how |-> "positional", runePos |-> runePos,
              text |-> Splice(text, runePos, runePos + n, corr.CorWord[1])]
        ELSE [how |-> "no match", runePos |-> runePos, text |-> text]

\* What one iteration of the loop of applyCorrections does with corr on the
\* text: the branch it takes, the rune position it resolved and the text it leaves.
CorrectItem(text, corr) ==
    LET n == Len(corr.ErrWord)
        runePos == IF corr.Pos >= 0 THEN ByteToRunePos(text, corr.Pos) ELSE -1
        inRange == corr.Pos >= 0 /\ runePos >= 0 /\ runePos + n <= Len(text)
        actualText == IF inRange THEN Slice(text, runePos, runePos + n) ELSE <<>>
        at == StringsIndex(text, corr.ErrWord)
    IN  IF Len(corr.CorWord) = 0 \/ corr.CorWord[1] = <<>>
        THEN [how |-> "no corword", runePos |-> -1, text |-> text]
        ELSE IF corr.ErrWord = <<>>
        THEN [how |-> "no errword", runePos |-> -1, text |-> text]
        ELSE IF /\ inRange
                /\ \/ StripErrorMarkers(actualText, "new") = corr.ErrWord
                   \/ actualText = corr.ErrWord
        THEN [how |-> "positional", runePos |-> runePos,
              text |-> Splice(text, runePos, runePos + n, corr.CorWord[1])]
        ELSE IF at # 0
        THEN [how |-> "fallback", runePos |-> runePos,
              text |-> Splice(text, at - 1, at - 1 + n, corr.CorWord[1])]
        ELSE [how |-> "no match", runePos |-> runePos, text |-> text]

\* One iteration of the loop of applyCorrections.
CorrStep ==
    /\ pc = "corr"
    /\ idx <= Len(items)
    /\ LET step == CorrectItem(runes, items[idx])
       IN  /\ runes' = step.text
           /\ log' = Append(log, [item |-> items[idx], how |-> step.how,
                                  runePos |-> step.runePos,
                                  before |-> runes, after |-> step.text])
    /\ idx' = idx + 1
    /\ UNCHANGED <<verifyContent, pc, dataObj, result, returned, items, locals>>
    /\ UNCHANGED mvars

\* applyCorrections returns modifiedText; processOldFormat cleans it.
CorrDone ==
    /\ pc = "corr"
    /\ idx > Len(items)
    /\ Return([result EXCEPT !.ModifiedText = StripHTML(runes)])
    /\ UNCHANGED <<verifyContent, dataObj, items, idx, runes, locals, log>>
    /\ UNCHANGED mvars

(***************************************************************************)
(* MigrateToDuckDB and processAndInsert                                    *)
(***************************************************************************)

\* LIMIT limit OFFSET off over the rows ordered by id.
Page(rows, limit, off) ==
    SubSeq(rows, off + 1, MinOf({off + limit, Len(rows)}))

\* The test of the scan loop on checkresultjson and on checklist: a string
\* that decodes to a non-empty array, or a non-empty array.
HasEntries(v) ==
    IF IsString(v) THEN UnmarshalArray(v).ok /\ Len(UnmarshalArray(v).v) > 0
    ELSE v.t = "array" /\ Len(v.a) > 0

\* isOldFormat
IsOldFormatData(data) ==
    /\ "checkresultstr" \in DOMAIN data
    /\ "checkresultjson" \in DOMAIN data
    /\ HasEntries(data["checkresultjson"])

\* isNewFormat
IsNewFormatData(data) ==
    /\ "replace_text" \in DOMAIN data
    /\ "checklist" \in DOMAIN data
    /\ HasEntries(data["checklist"])

\* The document of a row has an object under "data" of one of the two formats.
IsKnownFormat(raw) ==
    /\ "data" \in DOMAIN raw
    /\ raw["data"].t = "object"
    /\ IsOldFormatData(raw["data"].o) \/ IsNewFormatData(raw["data"].o)

\* The row gets through the scan loop into contents: it scans, its content is
\* not NULL and decodes to an object of a known format.
PassesScanLoop(row) ==
    /\ row.Scans
    /\ row.Valid
    /\ UnmarshalMap(row.Raw).ok
    /\ IsKnownFormat(UnmarshalMap(row.Raw).v)

\* The VerifyContent the scan loop builds of a row: the raw content only.
ScannedContent(row) ==
    [ID |-> row.ID, TaskID |-> row.TaskID, Content |-> [Data |-> JNull, Raw |-> row.Raw]]

\* The contents of a page.
ScanPage(page) ==
    LET passing == SelectSeq(page, PassesScanLoop)
    IN  [k \in 1..Len(passing) |-> ScannedContent(passing[k])]

\* createDuckDBTable and the connection: a failure returns the error before
\* the loop starts.
Begin ==
    /\ mpc = "begin"
    /\ \E ok \in BOOLEAN : mpc' = IF ok THEN "query" ELSE "error"
    /\ UNCHANGED <<table, batchSize, offset, contents, cursor, inserts, handed,
                   pageReads, processed, errors>>
    /\ UNCHANGED pvars

\* QueryContext fails: MigrateToDuckDB returns the error.
QueryFails ==
    /\ mpc = "query"
    /\ pageReads' = pageReads + 1
    /\ mpc' = "error"
    /\ UNCHANGED <<table, batchSize, offset, contents, cursor, inserts, handed,
                   processed, errors>>
    /\ UNCHANGED pvars

\* One page query and its scan loop; an empty contents ends the paging loop.
QueryPage ==
    /\ mpc = "query"
    /\ pageReads' = pageReads + 1
    /\ LET page == Page(table, batchSize, offset)
       IN  /\ contents' = ScanPage(page)
           /\ errors' = errors + Cardinality({k \in 1..Len(page) : ~page[k].Scans})
           /\ mpc' = IF ScanPage(page) = <<>> THEN "break" ELSE "record"
    /\ cursor' = 1
    /\ UNCHANGED <<table, batchSize, offset, inserts, handed, processed>>
    /\ UNCHANGED pvars

\* The loop over contents hands the next record to processAndInsert, which
\* calls ProcessContent on it.
HandRecord ==
    /\ mpc = "record"
    /\ cursor <= Len(contents)
    /\ handed' = Append(handed, contents[cursor].ID)
    /\ verifyContent' = contents[cursor]
    /\ pc' = "start"
    /\ dataObj' = <<>>
    /\ result' = [PID |-> "", OriginalText |-> <<>>, ModifiedText |-> <<>>,
                  ErrorReason |-> ReasonNone]
    /\ returned' = <<>>
    /\ items' = <<>>
    /\ idx' = 1
    /\ runes' = <<>>
    /\ locals' = NoLocals
    /\ log' = <<>>
    /\ mpc' = "processing"
    /\ UNCHANGED <<table, batchSize, offset, contents, cursor, inserts, pageReads,
                   processed, errors>>

\* processAndInsert after ProcessContent has returned: the INSERT of the
\* result under the id of the row; the loop counts its outcome and goes on.
Insert ==
    /\ mpc = "processing"
    /\ pc = "done"
    /\ \E ok \in BOOLEAN :
           /\ inserts' = Append(inserts,
                                [ID |-> verifyContent.ID,
                                 OriginalText |-> result.OriginalText,
                                 ModifiedText |-> result.ModifiedText,
                                 PID |-> result.PID,
                                 ErrorReason |-> result.ErrorReason,
                                 ok |-> ok])
           /\ processed' = IF ok THEN processed + 1 ELSE processed
           /\ errors' = IF ok THEN errors ELSE errors + 1
    /\ cursor' = cursor + 1
    /\ mpc' = "record"
    /\ pc' = "idle"
    /\ UNCHANGED <<table, batchSize, offset, contents, handed, pageReads>>
    /\ UNCHANGED <<verifyContent, dataObj, result, returned, items, idx, runes, locals, log>>

\* offset += batchSize, after the last record of contents.
NextPage ==
    /\ mpc = "record"
    /\ cursor > Len(contents)
    /\ offset' = offset + batchSize
    /\ mpc' = "query"
    /\ UNCHANGED <<table, batchSize, contents, cursor, inserts, handed, pageReads,
                   processed, errors>>
    /\ UNCHANGED pvars

(***************************************************************************)
(* The records ProcessContent is run on                                    *)
(***************************************************************************)

\* The longest text of letters.
MaxTextLen == 3

\* The longest recorded word of a checklist item or a correction.
MaxWordLen == 2

\* The most pieces (tags, letters) a marked text is put together from.
MaxChunks == 5

SeqsUpTo(S, n) ==
    UNION {[1..k -> S] : k \in 0..n}

RECURSIVE Flatten(_)
Flatten(chunks) ==
    IF chunks = <<>> THEN <<>> ELSE Head(chunks) \o Flatten(Tail(chunks))

\* <span class='jdt_umold'>
MarkOpen ==
    <<"<", "s", "p", "a", "n", " ", "c", "l", "a", "s", "s", "=", "'",
      "j", "d", "t", "_", "u", "m", "o", "l", "d", "'", ">">>

\* <span style="background-color:yellow;">
YellowOpen ==
    <<"<", "s", "p", "a", "n", " ", "s", "t", "y", "l", "e", "=", "\"",
      "b", "a", "c", "k", "g", "r", "o", "u", "n", "d", "-", "c", "o", "l", "o", "r",
      ":", "y", "e", "l", "l", "o", "w", ";", "\"", ">">>

\* A reviewer note inside a highlighted span.
Note ==
    <<"U3010", "x", "U9519", "U8BEF", "U3011">>

PlainTexts ==
    [1..MaxTextLen -> {"a", "b"}]

\* The texts two items are applied to.
PairTexts ==
    {t \in PlainTexts : t[1] = "a"}

\* Texts with a letter of three bytes.
WideTexts ==
    SeqsUpTo({"a", "U4E2D"}, MaxTextLen)

\* Texts with spans of the revised schema, nested and unbalanced ones
\* included, and stray "<".
MarkedTexts ==
    {Flatten(c) : c \in SeqsUpTo({MarkOpen, LitSpanClose, <<"a">>, <<"<">>}, MaxChunks)}
        \ {<<>>}

\* Texts with highlighted spans of the legacy schema, with and without notes,
\* and a text with entities.
YellowTexts ==
    {Flatten(c) : c \in SeqsUpTo({YellowOpen, LitSpanClose, <<"a">>, Note}, 3)}
        \cup {YellowOpen \o <<"b", "a", "d">> \o LitSpanClose \o <<" ", "t">>,
              <<"&", "l", "t", ";", "b", "&", "g", "t", ";", "a">>}

JStrs(list) ==
    JArr([k \in 1..Len(list) |-> JStr(list[k])])

ChecklistObj(p, l, w, s) ==
    JObj([position |-> JNum(p), length |-> JNum(l), word |-> JStr(w), suggest |-> JStrs(s)])

CorrectionObj(e, p, c) ==
    JObj([errword |-> JStr(e), pos |-> JNum(p), corword |-> JStrs(c)])

\* Items of any position and length, negative ones and ones past the end included.
AnyItems ==
    {ChecklistObj(p, l, w, s) :
        p \in (-1)..(MaxTextLen + 1), l \in (-1)..MaxWordLen,
        w \in {<<>>, <<"a">>, <<"a", "b">>},
        s \in {<<>>, << <<>> >>, << <<"b", "a">>, <<"a">> >>}}

\* Items whose range lies in text, with the word found there or another one,
\* and a replacement that is shorter or longer.
RangeItems(text) ==
    UNION {{ChecklistObj(r[1], r[2], w, s) :
               w \in {Slice(text, r[1], r[1] + r[2]), <<"b">>},
               s \in {<< <<>> >>, << <<"b", "a">> >>}} :
           r \in {q \in (0..Len(text)) \X (0..(MaxWordLen - 1)) :
                     q[1] + q[2] <= Len(text)}}

\* The lists of at most two of the items.
ListsOf(S) ==
    {<<>>} \cup {<<x>> : x \in S} \cup {<<x, y>> : x, y \in S}

\* Corrections at every byte offset of text, and outside it.
AnyCorrections(text) ==
    {CorrectionObj(e, p, c) :
        e \in {<<"a">>, <<"U4E2D">>, <<"a", "a">>},
        p \in (-1)..ByteLength(text),
        c \in {<<>>, << <<"x">> >>, << <<>>, <<"x">> >>}}

\* Values of a list field that are no list of items, or an empty one.
OddLists ==
    {JNull, JStr(<<>>), JStr(<<"a">>), JNum(1), JText(JNull), JText(JNum(1)),
     JText(JArr(<<>>)), JArr(<<JNum(1)>>), JArr(<<JNull>>), JObj([pos |-> JNum(0)]),
     JArr(<<JObj([position |-> JStr(<<"a">>), pos |-> JStr(<<"a">>)])>>)}

NewData ==
    {[replace_text |-> JStr(t), checklist |-> JArr(<<x>>)] : t \in PlainTexts, x \in AnyItems}
    \cup UNION {{[replace_text |-> JStr(t), checklist |-> JArr(l)] : l \in ListsOf(RangeItems(t))} :
                   t \in PairTexts}
    \cup {[replace_text |-> JStr(t), checklist |-> JArr(<<>>)] : t \in MarkedTexts}
    \cup {[replace_text |-> JStr(t)] : t \in MarkedTexts}
    \cup {[replace_text |-> JStr(t), checklist |-> c] :
            t \in {<<"a", "b">>, MarkOpen \o <<"a">> \o LitSpanClose,
                   MarkOpen \o MarkOpen \o <<"a">> \o LitSpanClose \o LitSpanClose},
            c \in OddLists \cup
                  {JText(JArr(<<ChecklistObj(0, 1, <<"a">>, << <<"b">> >>)>>)),
                   JArr(<<ChecklistObj(24, 1, <<"a">>, << <<"b">> >>)>>)}}

\* The records of a highlighted error word followed by further text, with the
\* one correction of that word at pos 0, as a list and as the string of one.
HighlightedWordData ==
    UNION {{[checkresultstr |-> JStr(YellowOpen \o w \o LitSpanClose \o rest),
             checkresultjson |-> list] :
               list \in {JArr(<<CorrectionObj(w, 0, <<c>>)>>),
                         JText(JArr(<<CorrectionObj(w, 0, <<c>>)>>))}} :
           w \in {<<"b", "a", "d">>, <<"U4E2D">>},
           rest \in {<<" ", "t">>, <<" ", "U4E2D">>},
           c \in {<<"g">>, <<"g", "o", "o", "d">>}}

\* Records with two corrections, at every pair of positions.
TwoCorrectionsData ==
    UNION {{[checkresultstr |-> JStr(t), checkresultjson |-> JArr(<<x, y>>)] :
               x, y \in {CorrectionObj(e, p, << <<"x", "y">> >>) :
                            e \in {<<"a">>, <<"b">>}, p \in 0..ByteLength(t)}} :
           t \in {<<"a", "b">>, <<"U4E2D", "a">>}}

\* Records that carry their corrections under another spelling of the field.
RespelledData ==
    {[k \in {"checkresultstr", key} |->
         IF k = "checkresultstr" THEN JStr(<<"a", "b">>)
         ELSE JArr(<<CorrectionObj(<<"a">>, 0, << <<"x">> >>)>>)] :
        key \in {"checkResultJson", "checkResultJSON", "check_result_json"}}

LegacyData ==
    UNION {{[checkresultstr |-> JStr(t), checkresultjson |-> JArr(<<c>>)] : c \in AnyCorrections(t)} :
              t \in WideTexts}
    \cup {[checkresultstr |-> JStr(t), checkresultjson |-> c] :
            t \in YellowTexts,
            c \in OddLists \cup
                  {JArr(<<>>),
                   JArr(<<CorrectionObj(<<"z">>, 0, << <<"b">> >>)>>),
                   JArr(<<CorrectionObj(<<"a">>, 0, << <<"b">> >>)>>),
                   JText(JArr(<<CorrectionObj(<<"a">>, 0, << <<"b">> >>)>>))}}
    \cup {[checkresultstr |-> JStr(t)] : t \in YellowTexts}
    \cup HighlightedWordData
    \cup TwoCorrectionsData
    \cup RespelledData

\* Records with the fields of both schemas, and the marked-source field under
\* each of its spellings, absent, empty or not a string.
MixedData ==
    LET texts == {JNull, JNum(1), JStr(<<>>), JStr(<<"a">>)}
        lists == {JNull, JStr(<<>>), JText(JArr(<<>>)),
                  JArr(<<CorrectionObj(<<"a">>, 0, << <<"b">> >>)>>)}
    IN  UNION {{f \in [D -> texts \cup lists] :
                   \A k \in D : f[k] \in IF k = "checkresultjson" THEN lists ELSE texts} :
               D \in SUBSET {"replace_text", "checkresultstr", "checkResultStr",
                             "check_result_str", "checkresultjson"}}

\* The payloads around one data object: wrapped under "data" or not, already
\* parsed or only raw, and the payloads that hold no object at all.
Payloads ==
    LET d == [replace_text |-> JStr(<<"a">>), checklist |-> JArr(<<>>),
              checkresultstr |-> JStr(<<"b">>), checkresultjson |-> JArr(<<>>)]
        docs == {JObj([data |-> JObj(d)]), JObj(d), JObj([data |-> JStr(<<"a">>)] @@ d),
                 JObj([data |-> JNull]), JObj([data |-> JObj(<<>>)])}
    IN  {[Data |-> doc, Raw |-> JText(doc)] : doc \in docs}
        \cup {[Data |-> JNull, Raw |-> JText(doc)] : doc \in docs}
        \cup {[Data |-> JNull, Raw |-> r] :
                r \in {JStr(<<>>), JStr(<<"a">>), JText(JNull), JText(JArr(<<>>)), JText(JNum(1))}}

\* A record as MigrateToDuckDB hands it over: the raw payload only, the data
\* object wrapped under "data".
Record(d) ==
    [ID |-> 1, TaskID |-> "t1",
     Content |-> [Data |-> JNull, Raw |-> JText(JObj([data |-> JObj(d)]))]]

\* The most rows of the source table.
MaxRows == 3

\* The largest batchSize.
MaxBatch == 2

\* The contents of the rows of the source table: NULL, not JSON, without
\* "data", with lists that are empty, and of both formats with lists that hold
\* an entry, one of them an item of negative length.
RowContents ==
    {[Scans |-> FALSE, Valid |-> TRUE, Raw |-> JStr(<<"a">>)],
     [Scans |-> TRUE, Valid |-> FALSE, Raw |-> JStr(<<>>)],
     [Scans |-> TRUE, Valid |-> TRUE, Raw |-> JStr(<<"a">>)],
     [Scans |-> TRUE, Valid |-> TRUE, Raw |-> JText(JObj([replace_text |-> JStr(<<"a">>)]))]}
    \cup {[Scans |-> TRUE, Valid |-> TRUE, Raw |-> JText(JObj([data |-> JObj(d)]))] :
            d \in {[replace_text |-> JStr(<<"a">>), checklist |-> JArr(<<>>)],
                   [replace_text |-> JStr(<<"a", "b">>),
                    checklist |-> JArr(<<ChecklistObj(0, 1, <<"a">>, << <<"b">> >>)>>)],
                   [replace_text |-> JStr(<<"a", "b">>),
                    checklist |-> JArr(<<ChecklistObj(0, -1, <<>>, << <<"b">> >>)>>)],
                   [checkresultstr |-> JStr(<<"a", "b">>),
                    checkresultjson |->
                        JText(JArr(<<CorrectionObj(<<"a">>, 0, << <<"x">> >>)>>))]}}

\* The source tables: the id of a row is its place in the order by id.
Tables ==
    {[k \in 1..Len(c) |-> [ID |-> k, TaskID |-> "t1", Scans |-> c[k].Scans,
                            Valid |-> c[k].Valid, Raw |-> c[k].Raw]] :
        c \in SeqsUpTo(RowContents, MaxRows)}

\* The state of ProcessContent while MigrateToDuckDB has no record in hand.
ProcessorIdle ==
    /\ verifyContent = [ID |-> 0, TaskID |-> "",
                        Content |-> [Data |-> JNull, Raw |-> JStr(<<>>)]]
    /\ pc = "idle"
    /\ dataObj = <<>>
    /\ result = [PID |-> "", OriginalText |-> <<>>, ModifiedText |-> <<>>,
                 ErrorReason |-> ReasonNone]
    /\ returned = <<>>
    /\ items = <<>>
    /\ idx = 1
    /\ runes = <<>>
    /\ locals = NoLocals
    /\ log = <<>>

\* The state of MigrateToDuckDB while it does not run.
MigrationIdle ==
    /\ table = <<>>
    /\ batchSize = 1
    /\ offset = 0
    /\ contents = <<>>
    /\ cursor = 1
    /\ mpc = "idle"
    /\ inserts = <<>>
    /\ handed = <<>>
    /\ pageReads = 0
    /\ processed = 0
    /\ errors = 0

Init ==
    /\ MigrationIdle
    /\ \/ verifyContent \in {Record(d) : d \in NewData}
       \/ verifyContent \in {Record(d) : d \in LegacyData}
       \/ verifyContent \in {Record(d) : d \in MixedData}
       \/ verifyContent \in {[ID |-> 1, TaskID |-> "t1", Content |-> c] : c \in Payloads}
    /\ pc = "start"
    /\ dataObj = <<>>
    /\ result = [PID |-> "", OriginalText |-> <<>>, ModifiedText |-> <<>>,
                 ErrorReason |-> ReasonNone]
    /\ returned = <<>>
    /\ items = <<>>
    /\ idx = 1
    /\ runes = <<>>
    /\ locals = NoLocals
    /\ log = <<>>

Next ==
    \/ ProcessContent
    \/ ProcessNewFormat
    \/ FixStep
    \/ FixDone
    \/ ProcessOldFormat
    \/ CorrStep
    \/ CorrDone

Spec ==
    Init /\ [][Next]_vars

\* MigrateToDuckDB is called on a table with a batchSize.
MigrationInit ==
    /\ ProcessorIdle
    /\ table \in Tables
    /\ batchSize \in 1..MaxBatch
    /\ offset = 0
    /\ contents = <<>>
    /\ cursor = 1
    /\ mpc = "begin"
    /\ inserts = <<>>
    /\ handed = <<>>
    /\ pageReads = 0
    /\ processed = 0
    /\ errors = 0

MigrationNext ==
    \/ Begin
    \/ QueryFails
    \/ QueryPage
    \/ HandRecord
    \/ ProcessContent
    \/ ProcessNewFormat
    \/ FixStep
    \/ FixDone
    \/ ProcessOldFormat
    \/ CorrStep
    \/ CorrDone
    \/ Insert
    \/ NextPage

MigrationSpec ==
    MigrationInit /\ [][MigrationNext]_vars

(***************************************************************************)
(* Properties                                                              *)
(***************************************************************************)

\* The data object has a non-empty string replace_text.
HasReplaceText(obj) ==
    /\ "replace_text" \in DOMAIN obj
    /\ obj["replace_text"].t = "string"
    /\ obj["replace_text"].s # <<>>

\* ProcessContent has returned from processNewFormat.
RevisedDone ==
    pc = "done" /\ ParseContent(verifyContent).ok /\ HasReplaceText(dataObj)

\* ProcessContent has returned from processOldFormat.
LegacyDone ==
    pc = "done" /\ ParseContent(verifyContent).ok /\ ~HasReplaceText(dataObj)

\* An entry of the log made by the loop of applyChecklistFixes.
IsFixEntry(e) ==
    "runePos" \notin DOMAIN e

\* C1: ProcessContent returns exactly one ProcessedContent for every record
\* and never panics: every slice of applyChecklistFixes has
\* 0 <= start <= end <= len(runes), whatever position and length an item holds.
C1_NeverPanics ==
    /\ pc # "panic"
    /\ Len(returned) <= 1
    /\ pc = "done" => Len(returned) = 1
    /\ \A k \in 1..Len(log) :
           (IsFixEntry(log[k]) /\ log[k].how \in {"panic", "mismatch", "applied"})
               => /\ 0 <= log[k].item.Position
                  /\ 0 <= log[k].item.Length
                  /\ log[k].item.Position + log[k].item.Length <= Len(log[k].before)

\* C2: a data object with a non-empty string replace_text is handed to
\* processNewFormat, whatever legacy fields it holds as well; every other one is
\* handed to processOldFormat.
C2_ClassifierPrecedence ==
    /\ pc \in {"new", "fix", "panic"} => HasReplaceText(dataObj)
    /\ pc \in {"old", "corr"} => ~HasReplaceText(dataObj)

\* A record with the fields of both schemas, all non-empty, on the revised path.
C2_BothSchemasRevised ==
    /\ pc = "new"
    /\ HasReplaceText(dataObj)
    /\ "checkresultstr" \in DOMAIN dataObj
    /\ dataObj["checkresultstr"].t = "string"
    /\ dataObj["checkresultstr"].s # <<>>
    /\ "checkresultjson" \in DOMAIN dataObj
    /\ dataObj["checkresultjson"].t = "array"
    /\ dataObj["checkresultjson"].a # <<>>

\* The correction of a log entry has a usable replacement and an error word
\* that stands in the text at codepoint index c (from 0), and its pos is the
\* byte offset of that index.
PosIsByteOffsetOf(e, c) ==
    /\ Len(e.item.CorWord) > 0
    /\ e.item.CorWord[1] # <<>>
    /\ e.item.ErrWord # <<>>
    /\ HasAt(e.before, c + 1, e.item.ErrWord)
    /\ e.item.Pos = ByteLength(SubSeq(e.before, 1, c))

\* C3: a correction whose pos is the byte offset of its error word resolves to
\* the codepoint index of that word, and the slice replaced is that word.
C3_ByteOffsetResolves ==
    \A k \in 1..Len(log) :
        ~IsFixEntry(log[k]) =>
            \A c \in 0..(Len(log[k].before) - 1) :
                PosIsByteOffsetOf(log[k], c) =>
                    /\ log[k].how = "positional"
                    /\ log[k].runePos = c
                    /\ log[k].after = Splice(log[k].before, c,
                                             c + Len(log[k].item.ErrWord),
                                             log[k].item.CorWord[1])

\* Items a and b have disjoint ranges in text, a before b, each holds the word
\* recorded for it and each replacement has another length than its word.
DisjointMatching(text, a, b) ==
    /\ 0 <= a.Position /\ 0 <= a.Length /\ 0 <= b.Length
    /\ a.Position < b.Position
    /\ a.Position + a.Length <= b.Position
    /\ b.Position + b.Length <= Len(text)
    /\ SubSeq(text, a.Position + 1, a.Position + a.Length) = a.Word
    /\ SubSeq(text, b.Position + 1, b.Position + b.Length) = b.Word
    /\ Len(a.Suggest) > 0 /\ Len(b.Suggest) > 0
    /\ Len(a.Suggest[1]) # a.Length
    /\ Len(b.Suggest[1]) # b.Length

\* Both ranges of text substituted at once, by index.
Composite(text, a, b) ==
    SubSeq(text, 1, a.Position) \o a.Suggest[1]
        \o SubSeq(text, a.Position + a.Length + 1, b.Position) \o b.Suggest[1]
        \o SubSeq(text, b.Position + b.Length + 1, Len(text))

\* C4: for two items with disjoint ranges that match the original text and
\* change its length, applyChecklistFixes returns the text with both ranges
\* substituted against the original, in whatever order they were listed.
C4_RightToLeft ==
    (RevisedDone /\ Len(items) = 2) =>
        \A i, j \in 1..2 :
            DisjointMatching(locals.cleanedReplaceText, items[i], items[j]) =>
                locals.modifiedText = Composite(locals.cleanedReplaceText, items[i], items[j])

\* Two such items have been applied.
C4_TwoApplied ==
    /\ RevisedDone
    /\ Len(items) = 2
    /\ DisjointMatching(locals.cleanedReplaceText, items[2], items[1])
    /\ Len(log) = 2
    /\ locals.modifiedText # locals.cleanedReplaceText

\* The item of a log entry has a replacement and a range inside the text.
InRange(e) ==
    /\ Len(e.item.Suggest) > 0
    /\ 0 <= e.item.Position
    /\ 0 <= e.item.Length
    /\ e.item.Position + e.item.Length <= Len(e.before)

\* The text in the range of the item of a log entry.
LiveWord(e) ==
    SubSeq(e.before, e.item.Position + 1, e.item.Position + e.item.Length)

\* C5: an item whose recorded word differs from the text in its range leaves
\* the text as it is, an item whose word is found there is applied, and the
\* loop goes through every item of the list.
C5_ContentCheckRefusal ==
    /\ \A k \in 1..Len(log) :
           (IsFixEntry(log[k]) /\ InRange(log[k])) =>
               IF LiveWord(log[k]) = log[k].item.Word
               THEN log[k].after = Splice(log[k].before, log[k].item.Position,
                                          log[k].item.Position + log[k].item.Length,
                                          log[k].item.Suggest[1])
               ELSE log[k].after = log[k].before
    /\ (RevisedDone /\ items # <<>>) =>
           /\ Len(log) = Len(items)
           /\ locals.modifiedText = log[Len(log)].after

\* A list whose first item is refused and whose second one is applied.
C5_RefusedThenApplied ==
    /\ RevisedDone
    /\ Len(log) = 2
    /\ InRange(log[1]) /\ LiveWord(log[1]) # log[1].item.Word
    /\ InRange(log[2]) /\ LiveWord(log[2]) = log[2].item.Word
    /\ log[2].after # log[2].before
    /\ locals.modifiedText = log[2].after

\* C6: stripping with the flag "new" is idempotent, so the second strip of
\* processNewFormat changes nothing: where applyChecklistFixes returned the
\* stripped replace_text as it was, stripping it again gives the same text.
C6_SecondStripNoOp ==
    (RevisedDone /\ locals.modifiedText = locals.cleanedReplaceText) =>
        locals.cleanedModifiedText = locals.cleanedReplaceText

\* The value of checkresultjson is the empty list, literally or as the string "[]".
IsEmptyList(v) ==
    v \in {JArr(<<>>), JText(JArr(<<>>))}

\* processOldFormat has returned for a record with a marked-source text and
\* an empty list of corrections.
LegacyEmptyListDone ==
    /\ LegacyDone
    /\ MarkedSource(dataObj).ok
    /\ "checkresultjson" \in DOMAIN dataObj
    /\ IsEmptyList(dataObj["checkresultjson"])

NoMarkedSource(obj) ==
    \A k \in {"checkresultstr", "checkResultStr", "check_result_str"} :
        ~(k \in DOMAIN obj /\ obj[k].t = "string" /\ obj[k].s # <<>>)

\* C8: a legacy record without a non-empty marked-source string under any
\* spelling ends with the reason "original field missing", both texts empty
\* and its corrections not looked at.
C8_MissingSourceTerminal ==
    (LegacyDone /\ NoMarkedSource(dataObj)) =>
        /\ result.ErrorReason = ReasonOriginalFieldMissing
        /\ result.OriginalText = <<>>
        /\ result.ModifiedText = <<>>
        /\ log = <<>>

\* C9: a legacy record with a marked-source text whose corrections are absent,
\* nil or "" returns with the reason "checkresultjson empty", one whose
\* corrections do not decode with the reason of the failed decode; both with
\* ModifiedText empty and OriginalText the stripped and normalized
\* marked-source text.
C9_UnusableCorrections ==
    (LegacyDone /\ MarkedSource(dataObj).ok) =>
        LET v == Get(dataObj, "checkresultjson")
            original == StripHTML(StripErrorMarkers(MarkedSource(dataObj).s, "old"))
        IN  /\ (v = JNull \/ v = JStr(<<>>)) =>
                   result = [PID |-> verifyContent.TaskID, OriginalText |-> original,
                             ModifiedText |-> <<>>,
                             ErrorReason |-> ReasonCheckResultJSONEmpty]
            /\ (v # JNull /\ v # JStr(<<>>) /\ ~UnmarshalCorrections(v).ok) =>
                   result = [PID |-> verifyContent.TaskID, OriginalText |-> original,
                             ModifiedText |-> <<>>,
                             ErrorReason |-> ReasonApplyCorrectionsFailed]
            /\ ReasonCheckResultJSONEmpty # ReasonApplyCorrectionsFailed

\* Corrections that do not decode, on a marked-source text the stripping changed.
C9_DecodeFailureKeepsOriginal ==
    /\ LegacyDone
    /\ MarkedSource(dataObj).ok
    /\ ~UnmarshalCorrections(Get(dataObj, "checkresultjson")).ok
    /\ result.ErrorReason = ReasonApplyCorrectionsFailed
    /\ result.OriginalText # <<>>
    /\ result.OriginalText # MarkedSource(dataObj).s
    /\ result.ModifiedText = <<>>

\* C10: a revised record without the checklist key returns with the reason
\* "checklist missing", one whose checklist decodes to an empty list with the
\* reason "no errors"; both with OriginalText and ModifiedText the stripped and
\* normalized replace_text.
C10_DegradedSuccess ==
    RevisedDone =>
        LET normalized == StripHTML(StripErrorMarkers(dataObj["replace_text"].s, "new"))
        IN  /\ "checklist" \notin DOMAIN dataObj =>
                   /\ result.OriginalText = normalized
                   /\ result.ModifiedText = normalized
                   /\ result.ErrorReason = ReasonChecklistMissing
            /\ ("checklist" \in DOMAIN dataObj /\ IsEmptyList(dataObj["checklist"])) =>
                   /\ result.OriginalText = normalized
                   /\ result.ModifiedText = normalized
                   /\ result.ErrorReason = ReasonNoErrors

\* The record has no parsed content and its raw payload is no JSON document.
Undecodable(vc) ==
    vc.Content.Data = JNull /\ vc.Content.Raw.t = "string"

\* C11: a record without parsed content whose raw payload is empty returns
\* with the reason "content empty", one whose raw payload is not valid JSON
\* with the reason of the failed parse; both texts are empty and no later step
\* has run.
C11_UndecodablePayload ==
    (pc = "done" /\ Undecodable(verifyContent)) =>
        /\ result = [PID |-> verifyContent.TaskID, OriginalText |-> <<>>,
                     ModifiedText |-> <<>>,
                     ErrorReason |-> IF verifyContent.Content.Raw.s = <<>>
                                     THEN ReasonContentEmpty
                                     ELSE ReasonJSONParseFailed]
        /\ returned = <<result>>
        /\ dataObj = <<>> /\ items = <<>> /\ log = <<>> /\ locals = NoLocals

\* Both kinds of payload end so: this is the one that is not valid JSON.
C11_MalformedPayloadDone ==
    /\ pc = "done"
    /\ Undecodable(verifyContent)
    /\ verifyContent.Content.Raw.s # <<>>
    /\ result.ErrorReason = ReasonJSONParseFailed

\* The list a value of checkresultjson holds: the array itself, or the one its
\* string encodes.
ListOf(v) ==
    IF v.t = "array" THEN v.a
    ELSE IF v.t = "jsontext" /\ v.doc.t = "array" THEN v.doc.a
    ELSE <<>>

\* A text without markup and entities.
IsPlain(text) ==
    \A k \in 1..Len(text) : text[k] \notin {"<", ">", "&"}

\* The text is a highlighted span around the word w followed by plain text,
\* and w stands nowhere else in it.
WrapsWord(text, w) ==
    /\ w # <<>> /\ IsPlain(w)
    /\ HasAt(text, 1, YellowOpen \o w \o LitSpanClose)
    /\ Len(text) > Len(YellowOpen) + Len(w) + Len(LitSpanClose)
    /\ IsPlain(SubSeq(text, Len(YellowOpen) + Len(w) + Len(LitSpanClose) + 1, Len(text)))
    /\ Cardinality({i \in 1..Len(text) : HasAt(text, i, w)}) = 1

\* The text after the highlighted span around w.
RestAfter(text, w) ==
    SubSeq(text, Len(YellowOpen) + Len(w) + Len(LitSpanClose) + 1, Len(text))

\* The data object holds a highlighted error word and the one correction of
\* it, with pos 0 and a plain replacement.
IsHighlightedWordRecord(obj) ==
    /\ DOMAIN obj = {"checkresultstr", "checkresultjson"}
    /\ obj["checkresultstr"].t = "string"
    /\ Len(ListOf(obj["checkresultjson"])) = 1
    /\ DecodeCorrection(ListOf(obj["checkresultjson"])[1]).ok
    /\ LET corr == DecodeCorrection(ListOf(obj["checkresultjson"])[1]).v
       IN  /\ corr.Pos = 0
           /\ Len(corr.CorWord) > 0
           /\ corr.CorWord[1] # <<>> /\ IsPlain(corr.CorWord[1])
           /\ WrapsWord(obj["checkresultstr"].s, corr.ErrWord)

\* C12: a legacy record of a highlighted error word followed by further text,
\* with the one correction of that word at pos 0, returns with OriginalText the
\* text without the span, ModifiedText that text with the word replaced, and
\* no reason.
C12_LegacyReconstruction ==
    (LegacyDone /\ IsHighlightedWordRecord(dataObj)) =>
        LET corr == DecodeCorrection(ListOf(dataObj["checkresultjson"])[1]).v
            rest == RestAfter(dataObj["checkresultstr"].s, corr.ErrWord)
        IN  result = [PID |-> verifyContent.TaskID,
                      OriginalText |-> corr.ErrWord \o rest,
                      ModifiedText |-> corr.CorWord[1] \o rest,
                      ErrorReason |-> ReasonNone]

\* Such a record, its word replaced where it was first found.
C12_WordReplaced ==
    /\ LegacyDone
    /\ IsHighlightedWordRecord(dataObj)
    /\ Len(log) = 1
    /\ log[1].how = "fallback"
    /\ result.ModifiedText # result.OriginalText

\* The step of a log entry left the codepoints that lie in front of the byte
\* offset pos as they were.
KeepsTextBefore(e, pos) ==
    LET n == Cardinality({k \in 1..Len(e.before) :
                             ByteLength(SubSeq(e.before, 1, k)) <= pos})
    IN  Len(e.after) >= n /\ SubSeq(e.after, 1, n) = SubSeq(e.before, 1, n)

C15_NoUsableSuggestSkipped ==
    \A k \in 1..Len(log) :
        (IsFixEntry(log[k])
            /\ \A i \in 1..Len(log[k].item.Suggest) : log[k].item.Suggest[i] = <<>>)
        => log[k].after = log[k].before

\* The first non-empty entry of a list of candidates.
FirstNonEmpty(list) ==
    list[MinOf({i \in 1..Len(list) : list[i] # <<>>})]

\* C16: a correction is skipped for its corword only when every entry of it is
\* empty; one that is applied is applied with the first non-empty entry.
C16_FirstNonEmptyCorWord ==
    \A k \in 1..Len(log) :
        ~IsFixEntry(log[k]) =>
            /\ log[k].how = "no corword" =>
                   \A i \in 1..Len(log[k].item.CorWord) : log[k].item.CorWord[i] = <<>>
            /\ log[k].how \in {"positional", "fallback"} =>
                   \E c \in 0..Len(log[k].before) :
                       log[k].after = Splice(log[k].before, c,
                                             c + Len(log[k].item.ErrWord),
                                             FirstNonEmpty(log[k].item.CorWord))

\* The spellings of the corrections field beside checkresultjson.
OtherSpellings ==
    {"checkResultJson", "checkResultJSON", "check_result_json"}

\* C17: a legacy record that carries its corrections only under another
\* spelling of the field is not reported as one whose corrections are empty.
C17_CorrectionsFieldFallback ==
    (/\ LegacyDone
     /\ MarkedSource(dataObj).ok
     /\ "checkresultjson" \notin DOMAIN dataObj
     /\ \E key \in OtherSpellings :
            key \in DOMAIN dataObj /\ ListOf(dataObj[key]) # <<>>)
    => result.ErrorReason # ReasonCheckResultJSONEmpty

\* C19: a legacy record with corrections none of which changed the text
\* returns with ModifiedText equal to OriginalText.
C19_UnchangedTextEqualsOriginal ==
    (/\ LegacyDone
     /\ items # <<>>
     /\ Len(log) = Len(items)
     /\ \A k \in 1..Len(log) : log[k].after = log[k].before)
    => result.ModifiedText = result.OriginalText

(***************************************************************************)
(* MigrateToDuckDB                                                         *)
(***************************************************************************)

\* processAndInsert has a record in hand whose ProcessContent panicked: no
\* statement of processAndInsert or of the paging loop runs after it.
Unwound ==
    mpc = "processing" /\ pc = "panic"

\* The inserts so far are those of the records handed so far, in order, one
\* each, but for the record in hand.
InsertsFollowHanded ==
    /\ Len(inserts) = Len(handed) - (IF mpc = "processing" THEN 1 ELSE 0)
    /\ \A k \in 1..Len(inserts) : inserts[k].ID = handed[k]

\* C13: every record handed to processAndInsert leads to exactly one insert
\* of its ProcessedContent, with or without an ErrorReason, and a failed
\* insert does not stop the records after it in the batch: the inserts follow
\* the records handed one for one, processAndInsert never ends before its
\* insert, and when the loop is over every record of the last contents was
\* handed.
C13_EveryHandedRecordInserted ==
    /\ InsertsFollowHanded
    /\ ~Unwound
    /\ (/\ mpc = "record"
        /\ cursor <= Len(contents)
        /\ Len(inserts) > 0
        /\ ~inserts[Len(inserts)].ok) => ENABLED HandRecord

\* The number of times the id occurs among the records handed.
TimesHanded(id) ==
    Cardinality({k \in 1..Len(handed) : handed[k] = id})

\* C18: when the paging loop has reached its break, every row of the source
\* table that passes the format pre-filter was handed to processAndInsert
\* exactly once, whichever page it lies on.
C18_EveryPassingRowHanded ==
    mpc = "break" =>
        \A k \in 1..Len(table) :
            PassesScanLoop(table[k]) => TimesHanded(table[k].ID) = 1

\* C20: the paging loop terminates: it reads at most one page more than the
\* table has rows, and as long as it has reached neither its break nor an
\* error return it has a next step.
C20_PagingLoopTerminates ==
    /\ pageReads <= Len(table) + 1
    /\ mpc \notin {"break", "error"} => ENABLED MigrationNext


=============================================================================
